---------------------------- MODULE Spec2Model ----------------------------
(***************************************************************************)
(* Model of src/src/fetch_data.py: the acquisition of the yearly accident  *)
(* archives (fetch_traffic_data), the per-year normalisation (get_df,      *)
(* get_dfs) and the city reference lookup (get_city_info,                  *)
(* get_regional_key).                                                      *)
(*                                                                         *)
(* Three specifications share the module, one per part of the program:     *)
(*   SpecFetch  fetch_traffic_data over the data directory                 *)
(*   SpecNorm   get_df, step by step, and get_dfs                          *)
(*   SpecCity   get_city_info and get_regional_key                         *)
(* Each leaves the variables of the other two parts untouched.             *)
(***************************************************************************)
EXTENDS Integers, Sequences, FiniteSets, TLC

VARIABLES
    \* ---- the data directory, as fetch_traffic_data sees it
    dataDir,     \* os.path.exists(DATA_DIR)
    csv,         \* csv[y]: DATA_DIR/{y}.csv exists
    zip,         \* zip[y]: DATA_DIR/Unfallorte{y}_EPSG25832_CSV.zip
    temp,        \* temp[y]: the scratch directory DATA_DIR/{y}
    fpc,         \* position of fetch_traffic_data
    fyear,       \* the loop variable `year` of fetch_traffic_data
    requests,    \* network requests (curl) made by the current run
    processed,   \* years whose iteration ran to its end in the current run
    reused,      \* years whose scratch directory the current run found
                 \* already there ("Already extracted ..., skipping...")
    faults,      \* downloads that went wrong so far (bounded by MaxFaults)
    \* ---- get_df / get_dfs
    disk,        \* disk[y]: the raw table stored in DATA_DIR/{y}.csv
    npc,         \* position of get_df
    ncall,       \* the function called: "get_df" or "get_dfs"
    nyear,       \* the argument `year` of get_df
    nyears,      \* the argument `years` of get_dfs
    df,          \* the data frame get_df is working on
    result,      \* outcome of the last get_df / get_dfs call
    reads,       \* files read by the last get_df / get_dfs call
    \* ---- get_city_info / get_regional_key
    cityFile,    \* rows of DATA_DIR/city_info.csv
    cityInfo,    \* the table get_city_info returned, if it was called
    lookup       \* outcome of the last get_regional_key call

fetchVars == <<dataDir, csv, zip, temp, fpc, fyear, requests, processed, reused,
               faults>>
normVars  == <<disk, npc, ncall, nyear, nyears, df, result, reads>>
cityVars  == <<cityFile, cityInfo, lookup>>
vars      == <<fetchVars, normVars, cityVars>>

(***************************************************************************)
(* Program constants.                                                      *)
(***************************************************************************)
\* DATA_YEARS = range(2016, 2025)
FirstYear == 2016
YearStop == 2025
DATA_YEARS == FirstYear..(YearStop - 1)

(***************************************************************************)
(* Bounds of the model.                                                    *)
(***************************************************************************)
\* Downloads that may go wrong in one behaviour: a transfer that leaves no
\* file, one that leaves a file that is no zip archive, an archive whose
\* extraction fails part-way, or an archive that holds no .csv/.txt member.
MaxFaults == 2

(***************************************************************************)
(* fetch_traffic_data                                                      *)
(***************************************************************************)
\* Names the members of a downloaded archive may have.
FileNames == {"Unfallorte.csv", "Unfallorte.txt", "Metadaten.pdf"}

\* What may be at the path of a year's zip file: nothing, a file that
\* ZipFile cannot open, an archive that extracts completely, or an archive
\* that ZipFile opens and whose extractall raises on one of its members (a
\* wrong CRC, an encrypted member). Archives carry their member names.
NoFile == [kind |-> "none", members |-> {}]
BadZip == [kind |-> "bad", members |-> {}]
Archive(members) == [kind |-> "zip", members |-> members]
Archives == {Archive(m) : m \in SUBSET FileNames}
Damaged(members) == [kind |-> "damaged", members |-> members]
DamagedArchives == {Damaged(m) : m \in (SUBSET FileNames) \ {{}}}

\* The files extractall may have written when it raises: the members before
\* the one it fails on, and that member too when the failure is found after
\* its bytes were written (a wrong CRC). The order of the members is the
\* archive's own, so any subset of them may be what is left.
PartialExtractions(archive) == SUBSET archive.members

\* A scratch directory: absent, or present with the files of its tree.
NoDir == [exists |-> FALSE, files |-> {}]
Dir(files) == [exists |-> TRUE, files |-> files]

\* str.endswith
endswith(s, suffix) ==
    /\ Len(s) >= Len(suffix)
    /\ SubSeq(s, Len(s) - Len(suffix) + 1, Len(s)) = suffix

\* line 55: file.endswith(".txt") or file.endswith(".csv")
IsDataFile(file) == endswith(file, ".txt") \/ endswith(file, ".csv")

DataFiles(files) == {f \in files : IsDataFile(f)}

\* What curl may leave at download_path (line 25): nothing, a file that is
\* no archive, or an archive, sound or damaged.
DownloadOutcomes == {NoFile, BadZip} \cup Archives \cup DamagedArchives

IsFault(outcome) ==
    \/ outcome \in {NoFile, BadZip}
    \/ outcome \in DamagedArchives
    \/ DataFiles(outcome.members) = {}

FetchInit ==
    /\ dataDir = FALSE
    /\ csv = [y \in DATA_YEARS |-> FALSE]
    /\ zip = [y \in DATA_YEARS |-> NoFile]
    /\ temp = [y \in DATA_YEARS |-> NoDir]
    /\ fpc = "idle"
    /\ fyear = FirstYear
    /\ requests = 0
    /\ processed = {}
    /\ reused = {}
    /\ faults = 0

\* line 68: os.path.exists(os.path.join(DATA_DIR, out_csv_file))
AlreadyHaveMut(y) == FALSE
AlreadyHave(y) == csv[y]

\* The end of one iteration of `for year in DATA_YEARS` (line 64).
NextIteration ==
    IF fyear + 1 < YearStop
    THEN /\ fyear' = fyear + 1
         /\ fpc' = "check"
    ELSE /\ fyear' = fyear
         /\ fpc' = "done"

\* lines 61-62 and the entry into the loop: a call of fetch_traffic_data.
\* A new call may follow one that returned or one that raised.
StartFetch ==
    /\ fpc \in {"idle", "done", "raised"}
    /\ dataDir' = TRUE
    /\ fyear' = FirstYear
    /\ fpc' = "check"
    /\ requests' = 0
    /\ processed' = {}
    /\ reused' = {}
    /\ UNCHANGED <<csv, zip, temp, faults>>
    /\ UNCHANGED <<normVars, cityVars>>

\* lines 68-70: the year is already materialized, `continue`.
SkipYear ==
    /\ fpc = "check"
    /\ AlreadyHave(fyear)
    /\ NextIteration
    /\ UNCHANGED <<dataDir, csv, zip, temp, requests, processed, reused, faults>>
    /\ UNCHANGED <<normVars, cityVars>>

\* line 68 false: the iteration goes on to the download.
BeginYear ==
    /\ fpc = "check"
    /\ ~AlreadyHave(fyear)
    /\ fpc' = "fetch"
    /\ UNCHANGED <<dataDir, csv, zip, temp, fyear, requests, processed, reused,
                   faults>>
    /\ UNCHANGED <<normVars, cityVars>>

\* lines 73-75 and 15-27: fetch_data. curl's exit status is not looked at.
FetchData ==
    /\ fpc = "fetch"
    /\ IF zip[fyear] = NoFile
       THEN \E outcome \in DownloadOutcomes :
              /\ IsFault(outcome) => faults < MaxFaults
              /\ faults' = IF IsFault(outcome) THEN faults + 1 ELSE faults
              /\ zip' = [zip EXCEPT ![fyear] = outcome]
              /\ requests' = requests + 1
       ELSE UNCHANGED <<zip, requests, faults>>
    /\ fpc' = "extract"
    /\ UNCHANGED <<dataDir, csv, temp, fyear, processed, reused>>
    /\ UNCHANGED <<normVars, cityVars>>

\* lines 78 and 29-43: extract_zip. The directory is made before the archive
\* is opened, so a missing or unreadable archive raises with the empty
\* directory left behind, and an archive whose extraction fails part-way
\* raises with the directory holding the files written until then. A
\* directory that is already there is taken as the extraction, whatever it
\* holds.
ExtractZip ==
    /\ fpc = "extract"
    /\ IF temp[fyear] = NoDir
       THEN IF zip[fyear] \in {NoFile, BadZip}
            THEN /\ temp' = [temp EXCEPT ![fyear] = Dir({})]
                 /\ fpc' = "raised"
                 /\ reused' = reused
            ELSE IF zip[fyear] \in DamagedArchives
            THEN /\ \E left \in PartialExtractions(zip[fyear]) :
                      temp' = [temp EXCEPT ![fyear] = Dir(left)]
                 /\ fpc' = "raised"
                 /\ reused' = reused
            ELSE /\ temp' = [temp EXCEPT ![fyear] = Dir(zip[fyear].members)]
                 /\ fpc' = "remove"
                 /\ reused' = reused
       ELSE /\ temp' = temp
            /\ fpc' = "remove"
            /\ reused' = reused \cup {fyear}
    /\ UNCHANGED <<dataDir, csv, zip, fyear, requests, processed, faults>>
    /\ UNCHANGED <<normVars, cityVars>>

\* line 79: os.remove(downloaded_zip_file_path)
RemoveZip ==
    /\ fpc = "remove"
    /\ IF zip[fyear] = NoFile
       THEN /\ fpc' = "raised"
            /\ zip' = zip
       ELSE /\ zip' = [zip EXCEPT ![fyear] = NoFile]
            /\ fpc' = "move"
    /\ UNCHANGED <<dataDir, csv, temp, fyear, requests, processed, reused, faults>>
    /\ UNCHANGED <<normVars, cityVars>>

\* lines 82 and 45-59: move_files_to_data_dir. Every data file of the tree
\* is renamed to the same {year}.csv, each one replacing the one before.
MoveFiles ==
    /\ fpc = "move"
    /\ csv' = [csv EXCEPT ![fyear] = csv[fyear] \/ DataFiles(temp[fyear].files) # {}]
    /\ temp' = [temp EXCEPT ![fyear] =
                   [temp[fyear] EXCEPT !.files = @ \ DataFiles(@)]]
    /\ fpc' = "rmtree"
    /\ UNCHANGED <<dataDir, zip, fyear, requests, processed, reused, faults>>
    /\ UNCHANGED <<normVars, cityVars>>

\* line 86: shutil.rmtree(temp_dir)
rmtreeMut(dir) == IF dir.files = {} THEN NoDir ELSE dir
rmtree(dir) == NoDir

RemoveTempDir ==
    /\ fpc = "rmtree"
    /\ temp' = [temp EXCEPT ![fyear] = rmtree(temp[fyear])]
    /\ processed' = processed \cup {fyear}
    /\ NextIteration
    /\ UNCHANGED <<dataDir, csv, zip, requests, reused, faults>>
    /\ UNCHANGED <<normVars, cityVars>>

FetchNext ==
    \/ StartFetch
    \/ SkipYear
    \/ BeginYear
    \/ FetchData
    \/ ExtractZip
    \/ RemoveZip
    \/ MoveFiles
    \/ RemoveTempDir

(***************************************************************************)
(* get_df and get_dfs                                                      *)
(***************************************************************************)
\* The four administrative-code columns of line 116, in its order.
Fragments == <<"ULAND", "UREGBEZ", "UKREIS", "UGEMEINDE">>
\* line 118: states = ["11", "02"]
states == <<"11", "02">>
\* Raw and canonical names of the object id column (lines 146-147).
IdColumns == {"OBJECTID", "OBJECTID_1", "OID_"}
\* The other column names a raw file is given: the dropped ones, the raw and
\* canonical names of the rename table, and one column no rule touches.
OtherColumns == {"FID", "PLST", "UIDENTSTLAE", "UIDENTSTLA",
                 "IstSonstig", "IstSonstige", "LICHT", "ULICHTVERH",
                 "STRZUSTAND", "IstStrasse", "IstStrassenzustand",
                 "USTRZUSTAND", "UJAHR"}
\* The order in which a raw file lists the columns it has.
ColumnOrder == <<"OBJECTID", "OBJECTID_1", "OID_", "FID", "ULAND", "UREGBEZ",
                 "UKREIS", "UGEMEINDE", "UJAHR", "IstSonstig", "IstSonstige",
                 "LICHT", "ULICHTVERH", "STRZUSTAND", "IstStrasse",
                 "IstStrassenzustand", "USTRZUSTAND", "UIDENTSTLA",
                 "UIDENTSTLAE", "PLST">>

Range(seq) == {seq[i] : i \in DOMAIN seq}

\* ---- the raw files the model is run on
\* Optional columns (besides the object id columns) of a generated header.
MaxOptCols == 2
\* Rows of a generated file with several rows.
MaxRows == 2
\* Object ids of the generated rows: 1..MaxOid, and 42.
MaxOid == 2

Oids == (1..MaxOid) \cup {42}
FragmentValues ==
    {<<l, r, k, g>> : l \in {"11", "02", "05"}, r \in {"0", "3"},
                      k \in {"00", "15"}, g \in {"000", "012"}}
SampleFragments == {<<"11", "3", "15", "012">>, <<"05", "3", "15", "012">>}

\* A row of a raw file with the columns `cols`: the cell of each column.
\* Every object id column of the file holds the row's object id.
RawRow(cols, frag, oid) ==
    [c \in cols |->
        IF c = "ULAND" THEN frag[1]
        ELSE IF c = "UREGBEZ" THEN frag[2]
        ELSE IF c = "UKREIS" THEN frag[3]
        ELSE IF c = "UGEMEINDE" THEN frag[4]
        ELSE IF c \in IdColumns THEN oid
        ELSE 0]

RawFile(cols, rowSpecs) ==
    [exists |-> TRUE,
     cols |-> SelectSeq(ColumnOrder, LAMBDA c : c \in cols),
     rows |-> [i \in DOMAIN rowSpecs |->
                  RawRow(cols, rowSpecs[i][1], rowSpecs[i][2])]]
NoCsv == [exists |-> FALSE, cols |-> <<>>, rows |-> <<>>]

DefaultRows == << <<<<"11", "0", "00", "000">>, 1>>,
                  <<<<"05", "3", "15", "012">>, 2>> >>

\* Files whose header varies: the four fragments, any of the object id
\* columns, and up to MaxOptCols of the other columns.
HeaderFiles ==
    {RawFile(Range(Fragments) \cup ids \cup opt, DefaultRows) :
        ids \in SUBSET IdColumns,
        opt \in {o \in SUBSET OtherColumns : Cardinality(o) <= MaxOptCols}}
\* Files that lack one of the fragments.
FragmentlessFiles ==
    {RawFile((Range(Fragments) \ {f}) \cup {"OID_"}, DefaultRows) :
        f \in Range(Fragments)}
\* Files whose rows vary: one row with any fragment values, or several
\* rows over SampleFragments, with any object ids, alike or not.
OneRowFiles ==
    {RawFile(Range(Fragments) \cup {"OBJECTID"}, << <<frag, oid>> >>) :
        frag \in FragmentValues, oid \in Oids}
RowSpecs(n) == [1..n -> SampleFragments \X Oids]
SeveralRowFiles ==
    {RawFile(Range(Fragments) \cup {"OID_"}, rs) :
        rs \in UNION {RowSpecs(n) : n \in 2..MaxRows}}
RawFiles ==
    HeaderFiles \cup FragmentlessFiles \cup OneRowFiles \cup SeveralRowFiles
    \cup {NoCsv}

\* The years get_df is called with.
YearInputs == {1900, FirstYear - 1, FirstYear, 2020, YearStop - 1, YearStop}
\* The lists get_dfs is called with: up to MaxYears years of ListYears.
MaxYears == 2
ListYears == {2018, 2020, YearStop}
YearLists == UNION {[1..n -> ListYears] : n \in 0..MaxYears}

\* ---- data frames
\* A data frame: its columns in order, each with its label and the raw
\* column its cells come from, and its rows, each a function from the raw
\* column to the cell.
EmptyFrame == [cols |-> <<>>, rows |-> <<>>]
Labels(d) == {d.cols[i].name : i \in DOMAIN d.cols}
\* The cells of the columns labelled `label`.
Sources(d, label) == {d.cols[i].src : i \in {j \in DOMAIN d.cols : d.cols[j].name = label}}

\* lines 101-113: pd.read_csv. The fragment columns are read as text.
read_csv(file) ==
    [cols |-> [i \in DOMAIN file.cols |->
                  [name |-> file.cols[i], src |-> file.cols[i]]],
     rows |-> file.rows]

\* df[label] = values, one for each row: a new last column.
WithColumn(d, label, values) ==
    [cols |-> Append(d.cols, [name |-> label, src |-> label]),
     rows |-> [i \in DOMAIN d.rows |->
                  [c \in (DOMAIN d.rows[i]) \cup {label} |->
                      IF c = label THEN values[i] ELSE d.rows[i][c]]]]

\* lines 116-120: the concatenation, overridden for the city states.
CommunityKeyMut(row) ==
    row["ULAND"] \o row["UREGBEZ"] \o row["UKREIS"] \o row["UGEMEINDE"]
CommunityKey(row) ==
    IF \E i \in DOMAIN states : row["ULAND"] = states[i]
    THEN row["ULAND"] \o "000000"
    ELSE row["ULAND"] \o row["UREGBEZ"] \o row["UKREIS"] \o row["UGEMEINDE"]

HasFragments(d) == Range(Fragments) \subseteq Labels(d)
AddCommunityKey(d) ==
    WithColumn(d, "Community_key",
               [i \in DOMAIN d.rows |-> CommunityKey(d.rows[i])])

\* df.drop(label, axis=1)
Drop(d, label) ==
    LET gone == Sources(d, label)
    IN  [cols |-> SelectSeq(d.cols, LAMBDA c : c.name # label),
         rows |-> [i \in DOMAIN d.rows |->
                      [c \in (DOMAIN d.rows[i]) \ gone |-> d.rows[i][c]]]]
\* lines 128-132: `if label in df.columns: df.drop(label, ...)`
DropIfPresentMut(d, label) == d
DropIfPresent(d, label) == IF label \in Labels(d) THEN Drop(d, label) ELSE d

\* lines 123-126: one of the two street identifier columns.
DropStreetId(d) ==
    IF "UIDENTSTLAE" \in Labels(d) THEN Drop(d, "UIDENTSTLAE")
    ELSE IF "UIDENTSTLA" \in Labels(d) THEN Drop(d, "UIDENTSTLA")
    ELSE d

\* lines 123-132
DropColumns(d) ==
    DropIfPresent(DropIfPresent(DropStreetId(d), "FID"), "PLST")

\* lines 136-148: the rename table.
RenameTarget(label) ==
    CASE label = "IstSonstig" -> "IstSonstige"
      [] label = "STRZUSTAND" -> "USTRZUSTAND"
      [] label = "IstStrasse" -> "USTRZUSTAND"
      [] label = "IstStrassenzustand" -> "USTRZUSTAND"
      [] label = "LICHT" -> "ULICHTVERH"
      [] label = "OBJECTID" -> "OID_"
      [] label = "OBJECTID_1" -> "OID_"
      [] OTHER -> label

\* lines 135-150: df.rename(columns=...): every label is looked up once; the
\* columns and their cells stay where they are.
RenameColumnsMut(d) ==
    LET renamed == [i \in DOMAIN d.cols |->
                       [d.cols[i] EXCEPT !.name = RenameTarget(@)]]
        \* a column is kept when no later column got the same label
        kept == {i \in DOMAIN d.cols :
                    \A j \in DOMAIN d.cols :
                        j > i => renamed[j].name # renamed[i].name}
        gone == {renamed[i].src : i \in (DOMAIN d.cols) \ kept}
        keptSeq == SelectSeq(renamed, LAMBDA c : c.src \notin gone)
    IN  [cols |-> keptSeq,
         rows |-> [i \in DOMAIN d.rows |->
                      [c \in (DOMAIN d.rows[i]) \ gone |-> d.rows[i][c]]]]
RenameColumns(d) ==
    [cols |-> [i \in DOMAIN d.cols |->
                  [d.cols[i] EXCEPT !.name = RenameTarget(@)]],
     rows |-> d.rows]

\* line 153: f"{year}_{x}"
UidMut(year, x) == ToString(x)
Uid(year, x) == ToString(year) \o "_" \o ToString(x)

\* line 153, for a frame with exactly one column labelled OID_.
AddUid(d, year) ==
    LET oid == CHOOSE c \in Sources(d, "OID_") : TRUE
    IN  WithColumn(d, "UID", [i \in DOMAIN d.rows |-> Uid(year, d.rows[i][oid])])

\* ---- outcomes of a call: a kind ("ok" or the exception raised) and the
\* tables returned, by year.
NoTables == [y \in {} |-> EmptyFrame]
Raise(exception) == [kind |-> exception, tables |-> NoTables]
Return(tables) == [kind |-> "ok", tables |-> tables]
NoResult == [kind |-> "none", tables |-> NoTables]

\* line 153 on the renamed frame: df["OID_"] is missing (KeyError), one column,
\* or several columns, which the assignment to df["UID"] cannot take.
UidStep(d, year) ==
    IF Sources(d, "OID_") = {} THEN Raise("KeyError")
    ELSE IF Cardinality(Sources(d, "OID_")) > 1 THEN Raise("ValueError")
    ELSE Return(year :> AddUid(d, year))

\* lines 96-98: the assert on the year.
YearSupportedMut(year) == year >= FirstYear
YearSupported(year) == year \in DATA_YEARS

\* line 100: the file at DATA_DIR/{year}.csv, if there is one.
FileAt(files, year) == IF year \in DOMAIN files THEN files[year] ELSE NoCsv

\* lines 89-155: get_df as one function of the year and the files on disk.
get_df(year, files) ==
    IF ~YearSupported(year) THEN Raise("AssertionError")
    ELSE IF ~FileAt(files, year).exists THEN Raise("FileNotFoundError")
    ELSE LET d0 == read_csv(FileAt(files, year))
         IN  IF ~HasFragments(d0) THEN Raise("KeyError")
             ELSE UidStep(RenameColumns(DropColumns(AddCommunityKey(d0))), year)

\* lines 166-169: get_dfs. The assert looks at every year before the first
\* get_df; the comprehension then calls get_df year by year and stops at the
\* first call that raises.
AllYearsSupported(years) == \A i \in DOMAIN years : YearSupported(years[i])

Failing(years, files) ==
    {i \in DOMAIN years : get_df(years[i], files).kind # "ok"}
Min(S) == CHOOSE x \in S : \A y \in S : x <= y

get_dfs(years, files) ==
    IF ~AllYearsSupported(years) THEN Raise("AssertionError")
    ELSE IF Failing(years, files) # {}
         THEN Raise(get_df(years[Min(Failing(years, files))], files).kind)
         ELSE Return([y \in Range(years) |-> get_df(y, files).tables[y]])

\* Files a get_dfs call opens.
get_dfs_reads(years, files) ==
    IF ~AllYearsSupported(years) THEN 0
    ELSE IF Failing(years, files) # {} THEN Min(Failing(years, files))
         ELSE Len(years)

NormInit ==
    /\ \E raw \in RawFiles : disk = [y \in DATA_YEARS |-> raw]
    /\ npc = "idle"
    /\ ncall = "none"
    /\ nyear = 0
    /\ nyears = <<>>
    /\ df = EmptyFrame
    /\ result = NoResult
    /\ reads = 0

\* lines 96-113: a call of get_df: the assert, then read_csv. get_df keeps
\* nothing from one call to the next, so a behaviour follows one call.
CallGetDf ==
    /\ npc = "idle"
    /\ ncall' = "get_df"
    /\ nyears' = <<>>
    /\ \E year \in YearInputs :
         /\ nyear' = year
         /\ IF ~YearSupported(year)
            THEN /\ result' = Raise("AssertionError")
                 /\ reads' = 0
                 /\ df' = EmptyFrame
                 /\ npc' = "returned"
            ELSE /\ reads' = 1
                 /\ IF FileAt(disk, year).exists
                    THEN /\ df' = read_csv(FileAt(disk, year))
                         /\ result' = NoResult
                         /\ npc' = "key"
                    ELSE /\ df' = EmptyFrame
                         /\ result' = Raise("FileNotFoundError")
                         /\ npc' = "returned"
    /\ UNCHANGED <<disk, fetchVars, cityVars>>

\* lines 116-120
CommunityKeyStep ==
    /\ npc = "key"
    /\ IF HasFragments(df)
       THEN /\ df' = AddCommunityKey(df)
            /\ npc' = "drop"
            /\ result' = result
       ELSE /\ df' = EmptyFrame
            /\ npc' = "returned"
            /\ result' = Raise("KeyError")
    /\ UNCHANGED <<disk, ncall, nyear, nyears, reads, fetchVars, cityVars>>

\* lines 123-132
DropStep ==
    /\ npc = "drop"
    /\ df' = DropColumns(df)
    /\ npc' = "rename"
    /\ UNCHANGED <<disk, ncall, nyear, nyears, result, reads, fetchVars, cityVars>>

\* lines 135-150
RenameStep ==
    /\ npc = "rename"
    /\ df' = RenameColumns(df)
    /\ npc' = "uid"
    /\ UNCHANGED <<disk, ncall, nyear, nyears, result, reads, fetchVars, cityVars>>

\* lines 153-155
ReturnDf ==
    /\ npc = "uid"
    /\ result' = UidStep(df, nyear)
    /\ df' = EmptyFrame
    /\ npc' = "returned"
    /\ UNCHANGED <<disk, ncall, nyear, nyears, reads, fetchVars, cityVars>>

\* lines 158-169: a call of get_dfs.
CallGetDfs ==
    /\ npc = "idle"
    /\ ncall' = "get_dfs"
    /\ \E years \in YearLists :
         /\ nyears' = years
         /\ result' = get_dfs(years, disk)
         /\ reads' = get_dfs_reads(years, disk)
    /\ nyear' = 0
    /\ npc' = "returned"
    /\ UNCHANGED <<disk, df, fetchVars, cityVars>>

NormNext ==
    \/ CallGetDf
    \/ CommunityKeyStep
    \/ DropStep
    \/ RenameStep
    \/ ReturnDf
    \/ CallGetDfs

(***************************************************************************)
(* get_city_info and get_regional_key                                      *)
(***************************************************************************)
\* Rows of a generated city_info.csv.
MaxCities == 2
\* Longest raw regional key of a generated city_info.csv.
MaxCodeLen == 13

\* Python's s[:n] and s[n:]
Prefix(s, n) == SubSeq(s, 1, IF Len(s) < n THEN Len(s) ELSE n)
Suffix(s, n) == IF Len(s) <= n THEN "" ELSE SubSeq(s, n + 1, Len(s))

CityNames == {"Berlin", "Hamburg"}
\* The names get_regional_key is asked for.
QueryNames == CityNames \cup {"berlin", "Atlantis"}
\* Raw regional keys: the leading characters, 8 to MaxCodeLen of them, of
\* two longer digit strings.
BaseCodes == {"1100000000001234", "0531501234567890"}
RawCodes == {Prefix(b, n) : b \in BaseCodes, n \in 8..MaxCodeLen}
CityFiles ==
    UNION {[1..n -> [city : CityNames, key : RawCodes]] : n \in 0..MaxCities}

\* line 187: the converter of the "regional key" column.
RegionalKeyMut(x) == Prefix(x, 5) \o Suffix(x, 10)
RegionalKey(x) == Prefix(x, 5) \o Suffix(x, 9)

NotLoaded == [loaded |-> FALSE, rows |-> <<>>]

\* lines 178-191: get_city_info.
get_city_info_table(file) ==
    [loaded |-> TRUE,
     rows |-> [i \in DOMAIN file |->
                  [city |-> file[i].city,
                   regional_key |-> RegionalKey(file[i].key)]]]

\* line 204: df[df["city"] == city_name]
Matches(table, city_name) ==
    SelectSeq(table.rows, LAMBDA r : r.city = city_name)

\* line 205: city_info["regional key"].values[0]
FirstValue(matches, city_name) ==
    IF matches = <<>>
    THEN [kind |-> "IndexError", name |-> city_name, value |-> ""]
    ELSE [kind |-> "ok", name |-> city_name, value |-> matches[1].regional_key]

NoLookup == [kind |-> "none", name |-> "", value |-> ""]

CityInit ==
    /\ cityFile \in CityFiles
    /\ cityInfo = NotLoaded
    /\ lookup = NoLookup

\* lines 172-191
GetCityInfo ==
    /\ cityInfo' = get_city_info_table(cityFile)
    /\ UNCHANGED <<cityFile, lookup, fetchVars, normVars>>

\* lines 194-205, on the table get_city_info returned.
GetRegionalKey ==
    /\ cityInfo.loaded
    /\ \E city_name \in QueryNames :
         lookup' = FirstValue(Matches(cityInfo, city_name), city_name)
    /\ UNCHANGED <<cityFile, cityInfo, fetchVars, normVars>>

CityNext ==
    \/ GetCityInfo
    \/ GetRegionalKey

FetchIdle ==
    /\ dataDir = TRUE
    /\ csv = [y \in DATA_YEARS |-> TRUE]
    /\ zip = [y \in DATA_YEARS |-> NoFile]
    /\ temp = [y \in DATA_YEARS |-> NoDir]
    /\ fpc = "off"
    /\ fyear = FirstYear
    /\ requests = 0
    /\ processed = {}
    /\ reused = {}
    /\ faults = 0

NormIdle ==
    /\ disk = [y \in DATA_YEARS |-> NoCsv]
    /\ npc = "off"
    /\ ncall = "none"
    /\ nyear = 0
    /\ nyears = <<>>
    /\ df = EmptyFrame
    /\ result = NoResult
    /\ reads = 0

CityIdle ==
    /\ cityFile = <<>>
    /\ cityInfo = NotLoaded
    /\ lookup = NoLookup

InitFetch == FetchInit /\ NormIdle /\ CityIdle
SpecFetch == InitFetch /\ [][FetchNext]_vars

InitNorm == NormInit /\ FetchIdle /\ CityIdle
SpecNorm == InitNorm /\ [][NormNext]_vars

InitCity == CityInit /\ FetchIdle /\ NormIdle
SpecCity == InitCity /\ [][CityNext]_vars

(***************************************************************************)
(* Properties                                                              *)
(***************************************************************************)
\* The supported years as the specification words them: 2016 to 2024.
Unsupported(y) == y < 2016 \/ y > 2024
Returned == npc = "returned"
Rejected == result.kind = "AssertionError" /\ reads = 0 /\ DOMAIN result.tables = {}

\* C1: get_df with a year outside 2016..2024, and get_dfs with at least one
\* such year in its list, fail with the precondition's error (the assert's
\* AssertionError, the program's ConfigurationError) before any file is
\* read and return no table, whatever the other years of the list are.
C1_UnsupportedYearRejected ==
    /\ (Returned /\ ncall = "get_df" /\ Unsupported(nyear)) => Rejected
    /\ (Returned /\ ncall = "get_dfs"
          /\ \E i \in DOMAIN nyears : Unsupported(nyears[i])) => Rejected

\* C1 witness: get_dfs was called with a supported year followed by an
\* unsupported one, and get_df's file for the supported year is there.
C1_Witness ==
    /\ Returned /\ ncall = "get_dfs"
    /\ nyears = <<2018, 2025>>
    /\ disk[2018].exists
    /\ Rejected

\* The community key the specification gives a raw row.
ExpectedKey(raw) ==
    IF raw["ULAND"] \in {"11", "02"}
    THEN raw["ULAND"] \o "000000"
    ELSE raw["ULAND"] \o raw["UREGBEZ"] \o raw["UKREIS"] \o raw["UGEMEINDE"]

\* C2: in every table get_df or get_dfs returns, every row's Community_key
\* is a non-empty string: "{ULAND}000000" when ULAND is "11" or "02",
\* whatever the other three fragments are, and the concatenation of the
\* four fragments of the raw row otherwise.
C2_CommunityKey ==
    (Returned /\ result.kind = "ok") =>
        \A y \in DOMAIN result.tables :
            LET table == result.tables[y]
            IN  /\ "Community_key" \in Labels(table)
                /\ Len(table.rows) = Len(disk[y].rows)
                /\ \A i \in DOMAIN table.rows :
                     /\ table.rows[i]["Community_key"] = ExpectedKey(disk[y].rows[i])
                     /\ Len(table.rows[i]["Community_key"]) > 0

\* C2 witness: a returned row of city state "02" whose other fragments are
\* not zeros, and which got the key "02000000".
C2_Witness ==
    /\ Returned /\ result.kind = "ok" /\ ncall = "get_df"
    /\ \E i \in DOMAIN result.tables[nyear].rows :
         LET row == result.tables[nyear].rows[i]
         IN  /\ row["ULAND"] = "02" /\ row["UREGBEZ"] = "3"
             /\ row["UKREIS"] = "15" /\ row["UGEMEINDE"] = "012"
             /\ row["Community_key"] = "02000000"

\* The object id of a raw row: the cell of the file's object id column.
RawOid(file, i) ==
    file.rows[i][CHOOSE c \in IdColumns : c \in Range(file.cols)]
OidsUnique(file) ==
    \A i, j \in DOMAIN file.rows : RawOid(file, i) = RawOid(file, j) => i = j

\* C3: when the object id is unique within each year's file, no two rows of
\* the returned tables, of one year or of two, have the same UID, and each
\* row's UID is "{year}_{object id}"; object id 42 of 2020 gives "2020_42".
C3_UidUnique ==
    (Returned /\ result.kind = "ok"
       /\ \A y \in DOMAIN result.tables : OidsUnique(disk[y])) =>
        /\ \A y \in DOMAIN result.tables :
             \A i \in DOMAIN result.tables[y].rows :
                /\ result.tables[y].rows[i]["UID"]
                     = ToString(y) \o "_" \o ToString(RawOid(disk[y], i))
                /\ (y = 2020 /\ RawOid(disk[y], i) = 42)
                     => result.tables[y].rows[i]["UID"] = "2020_42"
        /\ \A y1, y2 \in DOMAIN result.tables :
             \A i1 \in DOMAIN result.tables[y1].rows :
                \A i2 \in DOMAIN result.tables[y2].rows :
                   result.tables[y1].rows[i1]["UID"] = result.tables[y2].rows[i2]["UID"]
                      => (y1 = y2 /\ i1 = i2)

\* C3 witness: get_dfs returned the tables of 2018 and 2020, each with
\* several rows of distinct object ids, the same ids in both years, 42
\* among them.
C3_Witness ==
    /\ Returned /\ result.kind = "ok" /\ ncall = "get_dfs"
    /\ DOMAIN result.tables = {2018, 2020}
    /\ OidsUnique(disk[2018])
    /\ Len(result.tables[2018].rows) >= 2
    /\ \E i \in DOMAIN result.tables[2020].rows :
         result.tables[2020].rows[i]["UID"] = "2020_42"
    /\ \E i \in DOMAIN result.tables[2018].rows :
         result.tables[2018].rows[i]["UID"] = "2018_42"

DroppedNames == {"FID", "PLST", "UIDENTSTLAE", "UIDENTSTLA"}
StreetIds == {"UIDENTSTLAE", "UIDENTSTLA"}
\* A raw file that lacks nothing get_df needs: the four fragments and one
\* object id column.
Loadable(file) ==
    /\ file.exists
    /\ Range(Fragments) \subseteq Range(file.cols)
    /\ Cardinality(IdColumns \cap Range(file.cols)) = 1

\* C4 as stated: whatever columns the raw file has, a returned table has
\* none of the columns FID, PLST, UIDENTSTLAE, UIDENTSTLA.
C4_Original ==
    (Returned /\ result.kind = "ok") =>
        \A y \in DOMAIN result.tables :
            Labels(result.tables[y]) \cap DroppedNames = {}

\* C4 as amended: a returned table has neither FID nor PLST nor
\* UIDENTSTLAE; it has no UIDENTSTLA either when the raw file has at most
\* one of the two street identifier columns, and keeps UIDENTSTLA when the
\* raw file has both; and a raw file that lacks any of the four columns is
\* loaded without an error.
C4_DroppedColumns ==
    /\ (Returned /\ result.kind = "ok") =>
          \A y \in DOMAIN result.tables :
             LET labels == Labels(result.tables[y])
                 raw == Range(disk[y].cols)
             IN  /\ labels \cap {"FID", "PLST", "UIDENTSTLAE"} = {}
                 /\ ~(StreetIds \subseteq raw) => "UIDENTSTLA" \notin labels
                 /\ StreetIds \subseteq raw => "UIDENTSTLA" \in labels
    /\ (Returned /\ ncall = "get_df" /\ ~Unsupported(nyear)
          /\ Loadable(disk[nyear])) => result.kind = "ok"

\* C4 witness: a file with FID and the street identifier UIDENTSTLA, and
\* without PLST and UIDENTSTLAE, was loaded: the table has none of the four.
C4_Witness ==
    /\ Returned /\ result.kind = "ok" /\ ncall = "get_df"
    /\ Range(disk[nyear].cols) \cap DroppedNames = {"FID", "UIDENTSTLA"}
    /\ Labels(result.tables[nyear]) \cap DroppedNames = {}

\* The rename table of the specification, raw name to canonical name.
CanonicalName ==
    [IstSonstig |-> "IstSonstige", STRZUSTAND |-> "USTRZUSTAND",
     IstStrasse |-> "USTRZUSTAND", IstStrassenzustand |-> "USTRZUSTAND",
     LICHT |-> "ULICHTVERH", OBJECTID |-> "OID_", OBJECTID_1 |-> "OID_"]
Looked(label) ==
    IF label \in DOMAIN CanonicalName THEN CanonicalName[label] ELSE label

\* C10: the rename step looks every column up once: the frame keeps its
\* columns in number and order, each with its own cells, labelled with the
\* canonical name when its label is in the rename table and with its own
\* label otherwise, so two columns renamed to the same target are both
\* kept; a frame whose labels are all outside the table's raw names is left
\* as it is.
C10_RenameIsLookup ==
    [][npc = "rename" =>
         /\ Len(df'.cols) = Len(df.cols)
         /\ \A i \in DOMAIN df.cols :
              /\ df'.cols[i].src = df.cols[i].src
              /\ df'.cols[i].name = Looked(df.cols[i].name)
         /\ df'.rows = df.rows
         /\ (Labels(df) \cap DOMAIN CanonicalName = {}) => df' = df]_vars

\* C10 witness: after the rename step the frame has two columns labelled
\* USTRZUSTAND, the cells of STRZUSTAND and those of IstStrasse.
C10_Witness ==
    /\ npc = "uid"
    /\ Sources(df, "USTRZUSTAND") = {"STRZUSTAND", "IstStrasse"}
    /\ \A i \in DOMAIN df.rows : {"STRZUSTAND", "IstStrasse"} \subseteq DOMAIN df.rows[i]

AllMaterialized == \A y \in 2016..2024 : csv[y]

\* C5: when {year}.csv exists at the start of a year's iteration, the
\* iteration ends there: no network request, and no change to that year's
\* or any other file or directory; and once every year's file exists, no
\* step of any later run makes a network request.
C5_SkipIsIdempotent ==
    [][/\ (fpc = "check" /\ csv[fyear]) =>
            /\ requests' = requests
            /\ csv' = csv /\ zip' = zip /\ temp' = temp
            /\ processed' = processed
            /\ \/ fpc' = "check" /\ fyear' = fyear + 1
               \/ fpc' = "done" /\ fyear = 2024
       /\ AllMaterialized => requests' <= requests]_vars

\* C5 witness: a run that found every year's file has returned without a
\* single request.
C5_Witness ==
    /\ fpc = "done"
    /\ AllMaterialized
    /\ requests = 0
    /\ processed = {}

\* C6: after fetch_traffic_data has run to completion, the data root holds
\* {year}.csv for every year 2016..2024.
C6_OneFilePerYear ==
    fpc = "done" => AllMaterialized

\* C9: for every year a run has processed to the end of its iteration, the
\* scratch directory of that year does not exist, whether the run made the
\* directory or found it, and whether or not a file was moved out of it.
C9_ScratchRemoved ==
    \A y \in processed : ~temp[y].exists

\* C9 witness: the run has processed a year whose scratch directory it made
\* and out of which a file was moved, and a year whose scratch directory it
\* found already there and out of which none was.
C9_Witness ==
    \E y1 \in processed \ reused, y2 \in processed \cap reused :
        csv[y1] /\ ~csv[y2]

HasCity(name) == \E i \in DOMAIN cityInfo.rows : cityInfo.rows[i].city = name

\* C7: a lookup of a city name that no row of the table has fails with a
\* NotFoundError, not with another error and not with a value.
C7_MissingCityNotFound ==
    (lookup.kind # "none" /\ ~HasCity(lookup.name)) =>
        lookup.kind = "NotFoundError"

Char(s, j) == SubSeq(s, j, j)
\* The first 5 characters of raw, then its characters from position 10 on.
IsTruncation(key, raw) ==
    /\ Len(key) = Len(raw) - 4
    /\ \A j \in 1..5 : Char(key, j) = Char(raw, j)
    /\ \A j \in 6..Len(key) : Char(key, j) = Char(raw, j + 4)

\* C8 as stated: every raw code of 10 or more characters gives a regional
\* key of exactly 9 characters.
C8_Original ==
    cityInfo.loaded =>
        \A i \in DOMAIN cityFile :
            Len(cityFile[i].key) >= 10 =>
                Len(cityInfo.rows[i].regional_key) = 9

\* C8 as amended: every raw code of 10 or more characters gives the key
\* made of its first 5 characters and its characters from position 10 on,
\* which is 4 characters shorter than the raw code (9 characters for a raw
\* code of 13); a lookup of "Berlin" returns that key of the first row
\* whose city is Berlin.
C8_RegionalKey ==
    /\ cityInfo.loaded =>
          \A i \in DOMAIN cityFile :
             Len(cityFile[i].key) >= 10 =>
                /\ IsTruncation(cityInfo.rows[i].regional_key, cityFile[i].key)
                /\ Len(cityFile[i].key) = 13
                      => Len(cityInfo.rows[i].regional_key) = 9
    /\ (lookup.name = "Berlin" /\ HasCity("Berlin")) =>
          LET first == CHOOSE i \in DOMAIN cityFile :
                          /\ cityFile[i].city = "Berlin"
                          /\ \A j \in 1..(i - 1) : cityFile[j].city # "Berlin"
          IN  /\ lookup.kind = "ok"
              /\ Len(cityFile[first].key) >= 10
                    => IsTruncation(lookup.value, cityFile[first].key)

\* C8 witness: Berlin's raw code has 13 characters and the lookup returned
\* its 9-character key.
C8_Witness ==
    /\ lookup.kind = "ok" /\ lookup.name = "Berlin"
    /\ \E i \in DOMAIN cityFile :
         /\ cityFile[i].city = "Berlin"
         /\ cityFile[i].key = "1100000000001"
    /\ lookup.value = "110000001"
=============================================================================
